---- MODULE Spec2Model ----
(***************************************************************************)
(* A model of elk/training/ccs_reporter.py: one constructed CcsReporter    *)
(* and one call of one of its operations (fit, fitold, reset_parameters,   *)
(* loss, lossm, check_separability).                                       *)
(*                                                                         *)
(* Abstractions, all stated here once:                                     *)
(*  - A float is a record [k, v]: k is "fin" (v the value), "pinf",        *)
(*    "ninf" or "nan".  Comparison and arithmetic follow IEEE 754.         *)
(*  - A parameter tensor is a token [src, at, n] naming the last write to  *)
(*    it: the constructor, an init scheme in restart `at`, or the n-th     *)
(*    optimizer update of restart `at`.  Tensor shapes inside the probe    *)
(*    are not modelled.                                                    *)
(*  - self.parameters() is the probe's parameters and the two Platt        *)
(*    scalars; the projector (SpectralNorm) is taken to hold no learnable  *)
(*    parameter.                                                           *)
(*  - The name Normalizer used by __init__ is taken to resolve, so that a  *)
(*    reporter can be constructed.                                         *)
(***************************************************************************)
EXTENDS Integers, Sequences, FiniteSets, TLC

\* ------------------------------------------------------------- bounds
MaxTries == 2
MaxEpochs == 1
MaxLayers == 2
MaxGroups == 5
MaxLossGroups == 2
MaxRows == 2
MaxVariants == 2
MaxLoss == 1
MaxDen == 2

\* ------------------------------------------------- program constants
NumNorms == 4
NumFitGroups == 4

VARIABLES
    cfg,         \* the CcsReporterConfig of the reporter
    call,        \* the operation called and its arguments
    pc,          \* position of the call
    outcome,     \* [kind, val]: "pending", "returned" or the error raised
    params,      \* the live parameters, mutated in place
    i,           \* fit: restart index
    best_loss,   \* fit: best loss so far
    best_state,  \* fit: state dict of the best run
    loss,        \* driver: the local `loss`
    epoch,       \* driver: optimizer updates made in this restart
    lossAge,     \* driver: "none" (never evaluated), "fresh" (evaluated at
                 \*   the live parameters), "stale" (updated since)
    history,     \* ghost: per finished restart, its loss and end parameters
    driverRuns,  \* ghost: number of driver invocations
    paramsAtCall,\* ghost: the live parameters when the call was made
    unsup,       \* ghost: the value the loss registry returned
    rocCalls,    \* ghost: what each call of roc_auc returned
    norms,       \* self.norms: the group each Normalizer was fitted on (0: none)
    applied,     \* fit: per group, the Normalizer that transformed it (0: none)
    loadCalls    \* ghost: number of calls of load_state_dict

vars == <<cfg, call, pc, outcome, params, i, best_loss, best_state, loss,
          epoch, lossAge, history, driverRuns, paramsAtCall, unsup, rocCalls, norms, applied, loadCalls>>

\* ------------------------------------------------------------- floats
Fin(n) == [k |-> "fin", v |-> n]
PInf == [k |-> "pinf", v |-> 0]
NInf == [k |-> "ninf", v |-> 0]
NaN == [k |-> "nan", v |-> 0]

LossVals == {Fin(n) : n \in 0..MaxLoss} \cup {PInf, NInf, NaN}

\* a <= b on floats
LtOrEqual(a, b) ==
    /\ a.k # "nan"
    /\ b.k # "nan"
    /\ \/ a.k = "ninf"
       \/ b.k = "pinf"
       \/ a.k = "fin" /\ b.k = "fin" /\ a.v <= b.v

\* a < b on floats
Lt(a, b) ==
    /\ a.k # "nan"
    /\ b.k # "nan"
    /\ \/ a.k = "ninf" /\ b.k # "ninf"
       \/ a.k = "fin" /\ b.k = "pinf"
       \/ a.k = "fin" /\ b.k = "fin" /\ a.v < b.v

\* a finiteness check that only rejects NaN
IsFiniteNotNaN(x) == x.k # "nan"

\* math.isfinite
IsFinite(x) == x.k = "fin"

\* c * x for an integer coefficient c
Scale(c, x) ==
    CASE x.k = "nan" -> NaN
      [] x.k = "fin" -> Fin(c * x.v)
      [] OTHER -> IF c = 0 THEN NaN
                  ELSE IF c > 0 THEN x
                  ELSE IF x.k = "pinf" THEN NInf ELSE PInf

\* x + y
Add(x, y) ==
    CASE x.k = "nan" \/ y.k = "nan" -> NaN
      [] x.k = "fin" /\ y.k = "fin" -> Fin(x.v + y.v)
      [] x.k = "fin" -> y
      [] y.k = "fin" -> x
      [] OTHER -> IF x.k = y.k THEN x ELSE NaN

Min(a, b) == IF a < b THEN a ELSE b

\* ----------------------------------------------------------- results
Ok(v) == [err |-> "none", val |-> v]
Raise(e) == [err |-> e, val |-> NaN]

Pending == [kind |-> "pending", val |-> NaN]
Returned(v) == [kind |-> "returned", val |-> v]
Raised(e) == [kind |-> e, val |-> NaN]

\* --------------------------------------------------------- parameters
Tok(s, a, n) == [src |-> s, at |-> a, n |-> n]
Ctor == Tok("ctor", 0, 0)
Absent == Tok("absent", 0, 0)
Zero == Tok("zero", 0, 0)

\* __init__: the probe is pre_ln's LayerNorm (if any), a Linear, and an
\* activation and a Linear for each further layer.
ProbeLen(c) ==
    1 + (IF c.pre_ln THEN 1 ELSE 0)
      + 2 * (IF c.num_layers > 1 THEN c.num_layers - 1 ELSE 0)

\* __init__: w0 is the first Linear's weight, rest the probe's other
\* parameters (biases and deeper layers), platt the two Platt scalars.
Construct(c) ==
    [w0 |-> Ctor,
     rest |-> IF c.bias \/ c.num_layers > 1 THEN Ctor ELSE Absent,
     platt |-> Ctor]

\* reset_parameters.  idx is the restart it is called from.
\* Returns the error raised ("none" if none) and the parameters it leaves.
ResetParameters(c, p, idx) ==
    CASE c.init = "spherical" ->
            IF ProbeLen(c) # 1
            THEN [err |-> "AssertionError", params |-> p]
            ELSE IF ~c.bias
            THEN [err |-> "AttributeError",
                  params |-> [p EXCEPT !.w0 = Tok("theta_head", idx, 0)]]
            ELSE [err |-> "none",
                  params |-> [p EXCEPT !.w0 = Tok("theta_head", idx, 0),
                                       !.rest = Tok("theta_tail", idx, 0)]]
      [] c.init = "default" ->
            [err |-> "none",
             params |-> [p EXCEPT !.w0 = Tok("rand", idx, 0),
                                  !.rest = IF p.rest = Absent THEN Absent
                                           ELSE Tok("rand", idx, 0)]]
      [] c.init = "zero" ->
            [err |-> "none",
             params |-> [w0 |-> Zero,
                         rest |-> IF p.rest = Absent THEN Absent ELSE Zero,
                         platt |-> Zero]]
      [] c.init = "pca" -> [err |-> "none", params |-> p]
      [] OTHER -> [err |-> "ValueError", params |-> p]

\* The pca seeding of a restart.  fit sums a Python list with torch.sum,
\* which rejects it; fitold seeds probe[0].weight, which is None when
\* probe[0] is the LayerNorm of pre_ln.
PcaSeed(op, c, p, idx) ==
    IF op = "fit" THEN [err |-> "TypeError", params |-> p]
    ELSE IF c.pre_ln THEN [err |-> "AttributeError", params |-> p]
    ELSE [err |-> "none", params |-> [p EXCEPT !.w0 = Tok("pca", idx, 0)]]

\* ---------------------------------------------------- loss operations
NoLabels == [given |-> FALSE, n |-> 0]
Labels(n) == [given |-> TRUE, n |-> n]

\* alpha * bce_loss + (1 - alpha) * loss
Blend(alpha, b, u) == Add(Scale(alpha, b), Scale(1 - alpha, u))

\* lossm without its check of supervised_weight
LossmUnchecked(sw, labels, rows, u, b) ==
    IF labels.given
    THEN IF ~(labels.n <= rows[1]) THEN Raise("AssertionError")
         ELSE IF \E g \in 1..Len(rows) :
                    Min(labels.n, rows[g]) # Min(labels.n, rows[1])
         THEN Raise("RuntimeError")
         ELSE Ok(Add(Scale(sw, b), Scale(1 - sw, u)))
    ELSE Ok(u)

\* lossm: rows[g] is the row count of logits[g], u the value of
\* unsupervised_lossm, b the value of the binary cross-entropy.
\* logit[:num_labels] keeps min(num_labels, rows) rows and torch.stack
\* needs all slices to have one shape.
Lossm(sw, labels, rows, u, b) ==
    IF labels.given
    THEN IF ~(labels.n <= rows[1]) THEN Raise("AssertionError")
         ELSE IF \E g \in 1..Len(rows) :
                    Min(labels.n, rows[g]) # Min(labels.n, rows[1])
         THEN Raise("RuntimeError")
         ELSE Ok(Blend(sw, b, u))
    ELSE IF sw > 0 THEN Raise("ValueError")
    ELSE Ok(u)

\* loss: the two-group form, on logits of rows[1] and rows[2] rows and v
\* variants.  p0.add(1 - p1) broadcasts; squeeze(-1) drops a variant axis
\* of size 1, and preds.shape[1] then does not exist; bce needs as many
\* predictions as broadcast labels.
Loss(sw, labels, rows, v, u, b) ==
    IF labels.given
    THEN LET n == labels.n
             m == Min(labels.n, rows[2])
             r == IF n = m THEN n ELSE IF m = 1 THEN n ELSE m
         IN  IF ~(n <= rows[1]) THEN Raise("AssertionError")
             ELSE IF ~(n = m \/ n = 1 \/ m = 1) THEN Raise("RuntimeError")
             ELSE IF v = 1 THEN Raise("IndexError")
             ELSE IF r * v # n * v THEN Raise("ValueError")
             ELSE Ok(Blend(sw, b, u))
    ELSE IF sw > 0 THEN Raise("ValueError")
    ELSE Ok(u)

\* ------------------------------------------------ check_separability
\* the rational n / d
Q(n, d) == [num |-> n, den |-> d]

\* roc_auc(labels, scores): a scalar in [0, 1]
RocAucRange ==
    {q \in {Q(n, d) : n \in 0..MaxDen, d \in 1..MaxDen} : q.num <= q.den}

PredVals == {"zero", "nonzero", "nan"}

\* Tensor.any(): some element is not zero (NaN is not zero)
AnyNonzero(preds) == \E j \in 1..Len(preds) : preds[j] # "zero"

\* check_separability from the classifier's predictions on; auc is what
\* roc_auc returns if called.  [val, roc]: the value returned and what the
\* calls of roc_auc returned.  (NoEdgeCase: without the all-zero case.)
CheckSeparabilityNoEdgeCase(preds, auc) == [val |-> auc, roc |-> <<auc>>]

CheckSeparability(preds, auc) ==
    IF ~AnyNonzero(preds) THEN [val |-> Q(1, 2), roc |-> <<>>]
    ELSE [val |-> auc, roc |-> <<auc>>]

\* ------------------------------------------------ fit: the snapshot
\* A state dict is a copy of parameter values ("copy"), a view of the live
\* tensors ("alias"), or the empty dict.
EmptyState == [kind |-> "empty", val |-> [w0 |-> Absent, rest |-> Absent, platt |-> Absent]]

\* self.state_dict() without the deep copy: the live tensors
StateDictView(p) == [kind |-> "alias", val |-> p]

\* deepcopy(self.state_dict())
Deepcopy(p) == [kind |-> "copy", val |-> p]

\* load_state_dict(best_state): the parameters the live Probe then holds
LoadStateDict(bs, live) == IF bs.kind = "alias" THEN live ELSE bs.val

\* ------------------------------------------------ optimizer updates
\* AdamW.step(): updates the parameters that have a gradient; the Platt
\* scalars take no part in the forward pass and have none.
AdamStep(p, idx, n) ==
    [p EXCEPT !.w0 = Tok("opt", idx, n),
              !.rest = IF p.rest = Absent THEN Absent ELSE Tok("opt", idx, n)]

\* An LBFGS update: the closure's L2 regularizer gives every parameter a
\* gradient, the Platt scalars included.
LbfgsUpdate(p, idx, n) ==
    [w0 |-> Tok("opt", idx, n),
     rest |-> IF p.rest = Absent THEN Absent ELSE Tok("opt", idx, n),
     platt |-> Tok("opt", idx, n)]

\* ------------------------------------------------------ initial states
Inits == {"default", "zero", "spherical", "pca", "bogus"}
Optimizers == {"adam", "lbfgs", "sgd"}

Configs ==
    [num_tries : 0..MaxTries, num_epochs : 0..MaxEpochs,
     optimizer : Optimizers, init : Inits,
     num_layers : 1..MaxLayers, pre_ln : BOOLEAN, bias : BOOLEAN,
     supervised_weight : {0, 1}]

LabelArgs == {NoLabels} \cup {Labels(n) : n \in 0..MaxRows}

\* fit and fitold: hiddens of one row, `groups` groups along axis 2
FitCalls ==
    [op : {"fit", "fitold"}, groups : 1..MaxGroups,
     labels : {NoLabels, Labels(1)}, rows : {<<1>>},
     variants : {MaxVariants}, preds : {<<>>}]

LossCalls ==
    [op : {"loss"}, groups : {2}, labels : LabelArgs,
     rows : [1..2 -> 0..MaxRows], variants : 1..MaxVariants, preds : {<<>>}]

LossmCalls ==
    UNION {[op : {"lossm"}, groups : {g}, labels : LabelArgs,
            rows : [1..g -> 0..MaxRows], variants : 1..MaxVariants,
            preds : {<<>>}] : g \in 1..MaxLossGroups}

ResetCalls ==
    [op : {"reset_parameters"}, groups : {0}, labels : {NoLabels},
     rows : {<<>>}, variants : {1}, preds : {<<>>}]

SepCalls ==
    UNION {[op : {"check_separability"}, groups : {2}, labels : {NoLabels},
            rows : {<<>>}, variants : {1},
            preds : [1..n -> PredVals]] : n \in 0..MaxRows}

\* The fields an operation does not read are held at one value.
Unread(c) ==
    /\ c.num_tries = 0 /\ c.num_epochs = 0 /\ c.optimizer = "lbfgs"

DefaultShape(c) == c.num_layers = 1 /\ ~c.pre_ln /\ c.bias /\ c.init = "default"

\* fit reads pre_ln and bias in reset_parameters and in the pca seeding, and
\* supervised_weight and labels in the loss, the same way in every restart:
\* their non-default values are explored in calls of at most one restart.
Scenarios ==
    {sc \in [cfg : Configs,
             call : FitCalls \cup LossCalls \cup LossmCalls \cup ResetCalls \cup SepCalls] :
        CASE sc.call.op \in {"fit", "fitold"} ->
                \/ sc.cfg.num_tries <= 1
                \/ /\ ~sc.cfg.pre_ln /\ sc.cfg.bias
                   /\ sc.cfg.supervised_weight = 0 /\ sc.call.labels = NoLabels
          [] sc.call.op \in {"loss", "lossm"} ->
                Unread(sc.cfg) /\ DefaultShape(sc.cfg)
          [] sc.call.op = "reset_parameters" ->
                Unread(sc.cfg) /\ sc.cfg.supervised_weight = 0
          [] OTHER ->
                Unread(sc.cfg) /\ DefaultShape(sc.cfg) /\ sc.cfg.supervised_weight = 0}

Init ==
    /\ \E sc \in Scenarios : cfg = sc.cfg /\ call = sc.call
    /\ pc = "call"
    /\ outcome = Pending
    /\ params = Construct(cfg)
    /\ i = 0
    /\ best_loss = PInf
    /\ best_state = EmptyState
    /\ loss = PInf
    /\ epoch = 0
    /\ lossAge = "none"
    /\ history = <<>>
    /\ driverRuns = 0
    /\ paramsAtCall = Construct(cfg)
    /\ unsup = NaN
    /\ rocCalls = <<>>
    /\ norms = [j \in 1..NumNorms |-> 0]
    /\ applied = <<>>
    /\ loadCalls = 0

fitVars == <<i, best_loss, best_state, loss, epoch, lossAge, history, driverRuns>>

\* the call ends with error e, leaving the live parameters p
Fail(e, p) ==
    /\ pc' = "done"
    /\ outcome' = Raised(e)
    /\ params' = p

\* ------------------------------------------------- single-step operations
\* In the loss operations u is what the loss registry (LOSSES) returns for
\* the logits and b what binary_cross_entropy returns: any float.
CallLoss ==
    /\ pc = "call" /\ call.op = "loss"
    /\ \E u \in LossVals, b \in LossVals :
          LET r == Loss(cfg.supervised_weight, call.labels, call.rows,
                        call.variants, u, b)
          IN  /\ unsup' = u
              /\ outcome' = IF r.err = "none" THEN Returned(r.val) ELSE Raised(r.err)
    /\ pc' = "done"
    /\ UNCHANGED <<cfg, call, params, fitVars, paramsAtCall, rocCalls, norms, applied, loadCalls>>

CallLossm ==
    /\ pc = "call" /\ call.op = "lossm"
    /\ \E u \in LossVals, b \in LossVals :
          LET r == Lossm(cfg.supervised_weight, call.labels, call.rows, u, b)
          IN  /\ unsup' = u
              /\ outcome' = IF r.err = "none" THEN Returned(r.val) ELSE Raised(r.err)
    /\ pc' = "done"
    /\ UNCHANGED <<cfg, call, params, fitVars, paramsAtCall, rocCalls, norms, applied, loadCalls>>

CallResetParameters ==
    /\ pc = "call" /\ call.op = "reset_parameters"
    /\ LET r == ResetParameters(cfg, params, 0)
       IN  /\ params' = r.params
           /\ outcome' = IF r.err = "none" THEN Returned(NaN) ELSE Raised(r.err)
    /\ pc' = "done"
    /\ UNCHANGED <<cfg, call, fitVars, paramsAtCall, unsup, rocCalls, norms, applied, loadCalls>>

CallCheckSeparability ==
    /\ pc = "call" /\ call.op = "check_separability"
    /\ \E auc \in RocAucRange :
          LET r == CheckSeparability(call.preds, auc)
          IN  /\ outcome' = Returned(r.val)
              /\ rocCalls' = r.roc
    /\ pc' = "done"
    /\ UNCHANGED <<cfg, call, params, fitVars, paramsAtCall, unsup, norms, applied, loadCalls>>

\* --------------------------------------------------------------- fit
\* fit, up to the restart loop: unbind, fit and apply the normalizers.
\* x_tensors[i] for i in range(4) needs 4 groups; self.norms[i] for each
\* group needs no more than num_norms groups.
FitNormalize(groups) ==
    IF groups < NumFitGroups THEN "IndexError"
    ELSE IF groups > NumNorms THEN "IndexError"
    ELSE "none"

\* fitold, up to the restart loop: x_neg, x_pos = hiddens.unbind(2)
FitoldNormalize(groups) == IF groups # 2 THEN "ValueError" ELSE "none"

\* for i in range(4): self.norms[i].fit(x_tensors[i]) -- the Normalizers
\* fitted before the loop ends or x_tensors[i] is out of range, each on the
\* group of its own index (groups are numbered from 1 here).
FitNorms(groups) ==
    [j \in 1..NumNorms |-> IF j <= NumFitGroups /\ j <= groups THEN j ELSE 0]

\* [self.norms[i](x_tensors[i]) for i in range(len(x_tensors))] -- reached
\* only when the loop above ended, and rebinding x_tensors only when no
\* self.norms[i] was out of range.
ApplyNorms(groups) ==
    IF FitNormalize(groups) = "none" THEN [g \in 1..groups |-> g] ELSE <<>>

Normalize ==
    /\ pc = "call" /\ call.op \in {"fit", "fitold"}
    /\ LET e == IF call.op = "fit" THEN FitNormalize(call.groups)
                ELSE FitoldNormalize(call.groups)
       IN  IF e # "none"
           THEN /\ Fail(e, params)
                /\ UNCHANGED <<i, best_loss, best_state>>
           ELSE /\ pc' = "loop"
                /\ i' = 0
                /\ best_loss' = PInf
                /\ best_state' = EmptyState
                /\ UNCHANGED <<outcome, params>>
    /\ IF call.op = "fit"
       THEN /\ norms' = FitNorms(call.groups)
            /\ applied' = ApplyNorms(call.groups)
       ELSE UNCHANGED <<norms, applied>>
    /\ UNCHANGED <<cfg, call, loss, epoch, lossAge, history, driverRuns,
                   paramsAtCall, unsup, rocCalls, loadCalls>>

\* One restart up to the driver's first statement: reset_parameters, the
\* pca seeding, the choice of the driver.
BeginRestart ==
    /\ pc = "loop" /\ i < cfg.num_tries
    /\ LET r == ResetParameters(cfg, params, i)
           s == IF r.err = "none" /\ cfg.init = "pca"
                THEN PcaSeed(call.op, cfg, r.params, i) ELSE r
       IN  IF s.err # "none"
           THEN /\ Fail(s.err, s.params)
                /\ UNCHANGED <<loss, epoch, lossAge, driverRuns>>
           ELSE IF cfg.optimizer \in {"lbfgs", "adam"}
           THEN /\ pc' = cfg.optimizer
                /\ params' = s.params
                /\ loss' = PInf
                /\ epoch' = 0
                /\ lossAge' = "none"
                /\ driverRuns' = driverRuns + 1
                /\ UNCHANGED outcome
           ELSE /\ Fail("ValueError", s.params)
                /\ UNCHANGED <<loss, epoch, lossAge, driverRuns>>
    /\ UNCHANGED <<cfg, call, i, best_loss, best_state, history,
                   paramsAtCall, unsup, rocCalls, norms, applied, loadCalls>>

\* The loss the driver evaluates: fit's drivers call lossm on one logit
\* tensor per group, fitold's call loss on the pair.
DriverLoss(u, b) ==
    IF call.op = "fit"
    THEN Lossm(cfg.supervised_weight, call.labels,
               [g \in 1..call.groups |-> call.rows[1]], u, b)
    ELSE Loss(cfg.supervised_weight, call.labels,
              <<call.rows[1], call.rows[1]>>, call.variants, u, b)

\* self(x_tensors) in trainm_loop_adam passes the list of groups to
\* forward, that is to the projector, whose contract is tensor -> tensor:
\* what it does with a list is not decided here.
AdamForward(op) == IF op = "fit" THEN {"none", "TypeError"} ELSE {"none"}

\* One epoch of the Adam loop: zero_grad, loss, backward, step.
AdamEpoch ==
    /\ pc = "adam" /\ epoch < cfg.num_epochs
    /\ \E f \in AdamForward(call.op), u \in LossVals, b \in LossVals :
          LET l == DriverLoss(u, b)
          IN  IF f # "none"
              THEN /\ Fail(f, params)
                   /\ UNCHANGED <<loss, epoch, lossAge>>
              ELSE IF l.err # "none"
              THEN /\ Fail(l.err, params)
                   /\ UNCHANGED <<loss, epoch, lossAge>>
              ELSE /\ loss' = l.val
                   /\ params' = AdamStep(params, i, epoch + 1)
                   /\ epoch' = epoch + 1
                   /\ lossAge' = "stale"
                   /\ UNCHANGED <<pc, outcome>>
    /\ UNCHANGED <<cfg, call, i, best_loss, best_state, history, driverRuns,
                   paramsAtCall, unsup, rocCalls, norms, applied, loadCalls>>

\* return float(loss)
AdamReturn ==
    /\ pc = "adam" /\ epoch = cfg.num_epochs
    /\ pc' = "compare"
    /\ UNCHANGED <<cfg, call, outcome, params, fitVars, paramsAtCall, unsup, rocCalls, norms, applied, loadCalls>>

\* optimizer.step(closure) of LBFGS begins by evaluating the closure at
\* the parameters it is given.
LbfgsFirstEval ==
    /\ pc = "lbfgs" /\ lossAge = "none"
    /\ \E u \in LossVals, b \in LossVals :
          LET l == DriverLoss(u, b)
          IN  IF l.err # "none"
              THEN /\ Fail(l.err, params)
                   /\ UNCHANGED <<loss, lossAge>>
              ELSE /\ loss' = l.val
                   /\ lossAge' = "fresh"
                   /\ UNCHANGED <<pc, outcome, params>>
    /\ UNCHANGED <<cfg, call, i, best_loss, best_state, epoch, history,
                   driverRuns, paramsAtCall, unsup, rocCalls, norms, applied, loadCalls>>

\* One LBFGS iteration, of at most max_iter = num_epochs: a strong-Wolfe
\* line search evaluates the closure at trial points and the optimizer then
\* moves the parameters to the point the search chose, which is the last
\* point evaluated ("fresh") or an earlier one ("stale").  The loss raises
\* on its arguments alone, so it cannot raise here after the first call.
LbfgsIterate ==
    /\ pc = "lbfgs" /\ lossAge # "none" /\ epoch < cfg.num_epochs
    /\ \E u \in LossVals, b \in LossVals, age \in {"fresh", "stale"} :
          /\ loss' = DriverLoss(u, b).val
          /\ lossAge' = age
    /\ params' = LbfgsUpdate(params, i, epoch + 1)
    /\ epoch' = epoch + 1
    /\ UNCHANGED <<cfg, call, pc, outcome, i, best_loss, best_state, history,
                   driverRuns, paramsAtCall, unsup, rocCalls, norms, applied, loadCalls>>

\* optimizer.step returns, on its tolerances or its budget; return float(loss)
LbfgsReturn ==
    /\ pc = "lbfgs" /\ lossAge # "none"
    /\ pc' = "compare"
    /\ UNCHANGED <<cfg, call, outcome, params, fitVars, paramsAtCall, unsup, rocCalls, norms, applied, loadCalls>>

\* if loss < best_loss: best_loss = loss; best_state = deepcopy(state_dict())
Compare ==
    /\ pc = "compare"
    /\ IF Lt(loss, best_loss)
       THEN /\ best_loss' = loss
            /\ best_state' = Deepcopy(params)
       ELSE UNCHANGED <<best_loss, best_state>>
    /\ history' = Append(history, [loss |-> loss, params |-> params])
    /\ i' = i + 1
    /\ pc' = "loop"
    /\ UNCHANGED <<cfg, call, outcome, params, loss, epoch, lossAge,
                   driverRuns, paramsAtCall, unsup, rocCalls, norms, applied, loadCalls>>

\* After the loop: the finiteness check, load_state_dict, return.
Finish ==
    /\ pc = "loop" /\ i = cfg.num_tries
    /\ IF ~IsFinite(best_loss)
       THEN /\ Fail("RuntimeError", params)
            /\ UNCHANGED loadCalls
       ELSE IF best_state.kind = "empty"
       THEN /\ Fail("LoadError", params)
            /\ loadCalls' = loadCalls + 1
       ELSE /\ params' = LoadStateDict(best_state, params)
            /\ loadCalls' = loadCalls + 1
            /\ outcome' = Returned(best_loss)
            /\ pc' = "done"
    /\ UNCHANGED <<cfg, call, fitVars, paramsAtCall, unsup, rocCalls, norms, applied>>

Next ==
    \/ CallLoss
    \/ CallLossm
    \/ CallResetParameters
    \/ CallCheckSeparability
    \/ Normalize
    \/ BeginRestart
    \/ AdamEpoch
    \/ AdamReturn
    \/ LbfgsFirstEval
    \/ LbfgsIterate
    \/ LbfgsReturn
    \/ Compare
    \/ Finish

Spec == Init /\ [][Next]_vars

\* ------------------------------------------------------------ claims
FitOps == {"fit", "fitold"}

\* the input has the number of groups the call unbinds it into
WellFormedInput ==
    IF call.op = "fit" THEN call.groups = NumFitGroups ELSE call.groups = 2

\* C1: a call of fit (or fitold) that returns returns a finite loss, and one
\* whose restarts all ran to the end (every driver returned a loss, finite
\* or not) either returns or raises the numerical-failure error
\* RuntimeError; it never returns +inf, -inf or NaN.
C1_FitReturnsFiniteOrRaises ==
    (pc = "done" /\ call.op \in FitOps) =>
        /\ outcome.kind = "returned" => outcome.val.k = "fin"
        /\ (WellFormedInput /\ Len(history) = cfg.num_tries) =>
               outcome.kind \in {"returned", "RuntimeError"}

\* C1 witness: fit returned a finite loss although the driver of one of its
\* restarts returned NaN.
C1_Witness ==
    /\ pc = "done" /\ call.op = "fit" /\ outcome.kind = "returned"
    /\ outcome.val.k = "fin"
    /\ \E j \in 1..Len(history) : history[j].loss.k = "nan"

\* C2: when fit returns, the loss it returns is the loss of some restart k,
\* no restart's loss is below it (NaN is below nothing), k is the first
\* restart with that loss, and the live parameters are those the Probe held
\* at the end of restart k, whatever later restarts wrote.
C2_ReturnsMinimumAndItsParameters ==
    (pc = "done" /\ call.op \in FitOps /\ outcome.kind = "returned") =>
        /\ Len(history) = cfg.num_tries
        /\ \E k \in 1..Len(history) :
              /\ history[k].loss = outcome.val
              /\ \A j \in 1..(k - 1) : history[j].loss # outcome.val
              /\ \A j \in 1..Len(history) :
                    ~ \/ history[j].loss.k = "ninf"
                      \/ /\ history[j].loss.k = "fin"
                         /\ history[j].loss.v < outcome.val.v
              /\ params = history[k].params

\* C2 witness: fit returned the loss of a restart that was not the last,
\* and the last restart left other parameters behind.
C2_Witness ==
    /\ pc = "done" /\ call.op = "fit" /\ outcome.kind = "returned"
    /\ Len(history) >= 2
    /\ history[1].loss = outcome.val
    /\ history[Len(history)].loss # outcome.val
    /\ history[Len(history)].params # params

\* C3: when a driver returns, no parameter update has happened after the
\* loss evaluation whose value it returns.
C3_NoUpdateAfterReturnedLoss ==
    pc = "compare" => lossAge # "stale"

\* C4: loss and lossm called without labels raise ValueError when
\* supervised_weight > 0 and return the unsupervised loss when
\* supervised_weight = 0, whatever the logit groups.
C4_NoLabels ==
    (pc = "done" /\ call.op \in {"loss", "lossm"} /\ ~call.labels.given) =>
        /\ cfg.supervised_weight > 0 => outcome.kind = "ValueError"
        /\ cfg.supervised_weight = 0 => outcome = Returned(unsup)

\* C4 witness: lossm on groups of different row counts, without labels and
\* with supervised_weight > 0, raised ValueError.
C4_Witness ==
    /\ pc = "done" /\ call.op = "lossm" /\ ~call.labels.given
    /\ cfg.supervised_weight > 0
    /\ Len(call.rows) = 2 /\ call.rows[1] # call.rows[2]
    /\ outcome.kind = "ValueError"

\* C5: check_separability returns exactly 1/2 without calling roc_auc when
\* every prediction is zero, and otherwise returns what its one call of
\* roc_auc returned, a value in [0, 1]; it raises in neither case.
C5_Separability ==
    (pc = "done" /\ call.op = "check_separability") =>
        /\ outcome.kind = "returned"
        /\ IF \A j \in 1..Len(call.preds) : call.preds[j] = "zero"
           THEN /\ 2 * outcome.val.num = outcome.val.den
                /\ rocCalls = <<>>
           ELSE /\ rocCalls = <<outcome.val>>
                /\ 0 <= outcome.val.num
                /\ outcome.val.num <= outcome.val.den

\* C5 witness: some validation rows, every prediction zero, 1/2 returned.
C5_Witness ==
    /\ pc = "done" /\ call.op = "check_separability"
    /\ Len(call.preds) >= 2
    /\ \A j \in 1..Len(call.preds) : call.preds[j] = "zero"
    /\ outcome = Returned(Q(1, 2))

InvalidConfig ==
    \/ cfg.optimizer \notin {"adam", "lbfgs"}
    \/ cfg.init \notin {"default", "zero", "spherical", "pca"}
    \/ cfg.init = "spherical" /\ cfg.num_layers > 1

\* C6: a call of fit with an invalid configuration ends with the
\* invalid-configuration error (ValueError, or the AssertionError of
\* spherical init) and without any driver having run, for every num_tries.
C6_InvalidConfigRejected ==
    (pc = "done" /\ call.op = "fit" /\ WellFormedInput /\ InvalidConfig) =>
        /\ outcome.kind \in {"ValueError", "AssertionError"}
        /\ driverRuns = 0

\* C7: after a call of fit that failed, the live parameters are those the
\* Probe held when the call was made.
C7_FailedFitRestoresParameters ==
    (pc = "done" /\ call.op = "fit" /\ outcome.kind # "returned") =>
        params = paramsAtCall

\* C8: when the driver of a restart of fit starts, no parameter it optimizes holds a
\* value written by an earlier restart's optimizer.
C8_RestartsIndependent ==
    (call.op = "fit" /\ pc \in {"adam", "lbfgs"} /\ epoch = 0 /\ lossAge = "none") =>
        /\ params.w0.src # "opt"
        /\ params.rest.src # "opt"
        /\ params.platt.src # "opt"

\* C9: loss and lossm given more labels than some group has rows fail with
\* the label-count error (the AssertionError "Too many labels provided").
C9_LabelCountChecked ==
    (/\ pc = "done" /\ call.op \in {"loss", "lossm"} /\ call.labels.given
     /\ \E g \in 1..Len(call.rows) : call.labels.n > call.rows[g]) =>
        outcome.kind = "AssertionError"

\* C10: reset_parameters with init = "spherical" succeeds exactly when
\* num_layers = 1, whatever pre_ln and bias, and then the weight row holds
\* the head of the unit vector and the bias its last component.
C10_SphericalOnSingleLayer ==
    (pc = "done" /\ call.op = "reset_parameters" /\ cfg.init = "spherical") =>
        /\ outcome.kind = "returned" <=> cfg.num_layers = 1
        /\ outcome.kind = "returned" =>
              /\ params.w0.src = "theta_head"
              /\ params.rest.src = "theta_tail"

\* C11: for every number of groups G >= 2, fit gets past its normalization
\* without an out-of-range access, with Normalizer g fitted on group g and
\* applied to group g, for every group g.
C11_OneNormalizerPerGroup ==
    (call.op = "fit" /\ call.groups >= 2 /\ pc # "call") =>
        /\ ~(pc = "done" /\ outcome.kind = "IndexError")
        /\ Len(applied) = call.groups
        /\ \A g \in 1..call.groups :
              /\ g <= Len(norms) /\ norms[g] = g
              /\ applied[g] = g

\* C12: in fit (and fitold) the best loss and snapshot are, at every moment,
\* those of the first finished restart that no finished restart is below,
\* restarts whose loss is NaN or +inf never counting (no such restart: the
\* empty dict and +inf); and a call whose restarts all ran raises the
\* numerical-failure error exactly when every loss is NaN or +inf (as with
\* num_tries = 0) or some loss is -inf, never having called load_state_dict,
\* and otherwise calls it once.
C12_StrictBestAndFailure ==
    (call.op \in FitOps) =>
        LET cand == {k \in 1..Len(history) :
                        history[k].loss.k \notin {"nan", "pinf"}}
        IN  /\ IF cand = {}
               THEN best_loss.k = "pinf" /\ best_state.kind = "empty"
               ELSE \E k \in cand :
                      /\ best_loss = history[k].loss
                      /\ best_state.kind = "copy"
                      /\ best_state.val = history[k].params
                      /\ \A j \in 1..(k - 1) : history[j].loss # best_loss
                      /\ \A j \in cand :
                            ~ \/ /\ history[j].loss.k = "ninf"
                                 /\ best_loss.k # "ninf"
                              \/ /\ history[j].loss.k = "fin"
                                 /\ best_loss.k = "fin"
                                 /\ history[j].loss.v < best_loss.v
            /\ (pc = "done" /\ WellFormedInput /\ Len(history) = cfg.num_tries) =>
                  /\ outcome.kind = "RuntimeError" <=>
                        \/ cand = {}
                        \/ \E k \in cand : history[k].loss.k = "ninf"
                  /\ outcome.kind = "RuntimeError" => loadCalls = 0
                  /\ outcome.kind # "RuntimeError" => loadCalls = 1

\* C12 witness: two restarts of fit tied for the lowest loss and left
\* different parameters; fit returned with those of the first.
C12_Witness ==
    /\ pc = "done" /\ call.op = "fit" /\ outcome.kind = "returned"
    /\ Len(history) = 2
    /\ history[1].loss = history[2].loss
    /\ history[1].params # history[2].params
    /\ params = history[1].params
    /\ loadCalls = 1

====
